---- MODULE Spec2Model ----
(***************************************************************************)
(* Model of the graph query assistant backend:                             *)
(*   backend/openai_client.py  OpenAIClient (conversation store + LLM)     *)
(*   backend/neo4j_client.py   Neo4jClient.natural_language_query          *)
(*   backend/app.py            the /chat endpoint                          *)
(*                                                                         *)
(* The backend runs on one asyncio event loop: a coroutine runs without    *)
(* interruption between two awaits.  generate_response has one await, the  *)
(* completion call, so a call is two atomic steps: everything up to the    *)
(* await, and everything after it.                                         *)
(***************************************************************************)
EXTENDS Integers, Sequences, FiniteSets, TLC

\* ------------------------------------------------------------- bounds
\* SpecSeq: number of generate_response calls in a behaviour
MaxCalls == 12
\* Spec: number of generate_response calls in a behaviour
MaxConcurrentCalls == 4
\* Spec: exchanges conversation "a" may already hold in the initial state
PreTurns == 9
\* number of events other than a request that names its conversation and
\* completes: requests without a conversation id, completion calls that fail,
\* and clear_conversation calls that find their conversation
MaxOther == 2
\* SpecNLQ: number of vocabulary pieces a text is made of
MaxWords == 3
\* SpecChat: number of chat requests in a behaviour
MaxChats == 2
\* SpecGraphApi: number of GET requests in a behaviour
MaxRequests == 2
\* SpecLoad: number of rows of a CSV file
MaxRows == 1
\* SpecRag: number of documents added in a behaviour
MaxDocs == 1

\* ---------------------------------------------------------- constants
\* openai_client.py:168  max_messages = 20
max_messages == 20

None == "None"
\* conversation ids a client makes up itself
ClientIds == {"a"}
\* the values uuid.uuid4() yields, in the order it yields them: a uuid4 is
\* never a value handed out before, nor one a client made up
UuidPool == <<"u1", "u2", "u3", "u4">>
\* request slots: two requests can be in flight together
Procs == {1, 2}

VARIABLES
  conversation_history, \* OpenAIClient.conversation_history: id -> list of messages
  pc,                   \* per request slot: "idle", or "awaiting" the completion
  call,                 \* per request slot: the locals of generate_response
  ret,                  \* the operation that ran last and what it gave its caller
  uuids,                \* how many ids uuid4 has generated
  started,              \* history variable: requests made so far per conversation
  log,                  \* history variable: exchanges completed per conversation
                        \* since it was created or last cleared
  ncalls, nother,
  graph,                \* what the graph database holds
  query_text,           \* SpecNLQ: the text natural_language_query is called with
  nlq_result,           \* SpecNLQ: what the last call gave
  seen_intents,         \* history variable: the intents the text was given so far
  chat,                 \* per request slot: the locals of the chat endpoint
  http,                 \* the HTTP response sent last
  csv,                  \* the CSV files of the relations folder
  db,                   \* the graph database as the loader writes it
  loader,               \* GraphDataLoader.load_all: its position and arguments
  rag,                  \* RAGEngine: embeddings and vector_store
  disk,                 \* the index files under the persist directory
  rag_ret               \* the operation of RAGEngine that ran last and its outcome

storeVars == <<conversation_history, pc, call, ret, uuids, started, log,
               ncalls, nother>>
nlqVars == <<graph, query_text, nlq_result, seen_intents>>
chatVars == <<chat, http>>
loadVars == <<csv, db, loader>>
ragVars == <<rag, disk, rag_ret>>
vars == <<storeVars, nlqVars, chatVars, loadVars, ragVars>>

\* ------------------------------------------------------------ helpers
IssuedIds == {UuidPool[i] : i \in 1..uuids}
AllIds == ClientIds \cup {UuidPool[i] : i \in 1..Len(UuidPool)}

\* the text of a request is opaque to the client code; it is named by the
\* conversation it is sent to and its ordinal among the requests of that
\* conversation, so that every stored message can be told from every other
UserText(cid, k) == <<cid, k>>
\* the reply of the LLM is named by the request it answers
ReplyText(user_message) == <<"re", user_message>>

\* the context argument: empty, or some retrieved text
Contexts == {<<>>, <<"ctx">>}

\* the stored messages of a conversation, none when it has no entry
HistoryOf(history, cid) == IF cid \in DOMAIN history THEN history[cid] ELSE <<>>

\* ------------------------------------------------- OpenAIClient helpers
uuid4 == UuidPool[uuids + 1]

BasePrompt == "You are a helpful AI assistant for BNP."

build_system_prompt(context) ==
  IF context # <<>> THEN <<BasePrompt, context>> ELSE <<BasePrompt>>

\* mutant: the stored history is left out of the messages
get_conversation_messages_NoHistory(history, conversation_id, system_prompt, user_message) ==
  <<[role |-> "system", content |-> system_prompt],
    [role |-> "user", content |-> user_message]>>

get_conversation_messages(history, conversation_id, system_prompt, user_message) ==
  LET system == <<[role |-> "system", content |-> system_prompt]>>
      stored == IF conversation_id \in DOMAIN history
                THEN history[conversation_id] ELSE <<>>
  IN  system \o stored \o <<[role |-> "user", content |-> user_message]>>

\* mutant: the history is never cut
Truncate_Never(h) == h

\* mutant: the cut keeps the oldest max_messages entries ([:max_messages])
Truncate_KeepOldest(h) ==
  IF Len(h) > max_messages THEN SubSeq(h, 1, max_messages) ELSE h

\* mutant: the cut keeps one entry less, so that it drops an odd number
Truncate_OneLess(h) ==
  IF Len(h) > max_messages
  THEN SubSeq(h, Len(h) - max_messages + 2, Len(h))
  ELSE h

Truncate(h) ==
  IF Len(h) > max_messages
  THEN SubSeq(h, Len(h) - max_messages + 1, Len(h))
  ELSE h

Exchange(user_message, ai_message) ==
  <<[role |-> "user", content |-> user_message],
    [role |-> "assistant", content |-> ai_message]>>

\* mutant: the exchange is assigned, not appended
update_conversation_history_Assign(history, conversation_id, user_message, ai_message) ==
  [c \in DOMAIN history \cup {conversation_id} |->
     IF c = conversation_id THEN Exchange(user_message, ai_message) ELSE history[c]]

update_conversation_history(history, conversation_id, user_message, ai_message) ==
  LET h0 == IF conversation_id \in DOMAIN history
            THEN history ELSE history @@ (conversation_id :> <<>>)
      h1 == h0[conversation_id] \o Exchange(user_message, ai_message)
  IN  [h0 EXCEPT ![conversation_id] = Truncate(h1)]

\* mutant: every conversation is dropped (clear() in place of del)
del_All(history, conversation_id) == <<>>

\* line 189: del self.conversation_history[conversation_id]
del(history, conversation_id) ==
  [c \in DOMAIN history \ {conversation_id} |-> history[c]]

\* get_active_conversations (lines 194-196)
get_active_conversations(history) == Cardinality(DOMAIN history)

\* mutant: the except clause takes back the entry the call created
HistoryAfterError_DropsNew(history, c) ==
  IF c.supplied = None THEN [k \in DOMAIN history \ {c.conversation_id} |-> history[k]]
  ELSE history

\* mutant: the user message is stored before the completion is known to succeed
HistoryAfterError_KeepsUser(history, c) ==
  [k \in DOMAIN history \cup {c.conversation_id} |->
     IF k = c.conversation_id
     THEN HistoryOf(history, k) \o <<[role |-> "user", content |-> c.user_message]>>
     ELSE history[k]]

\* the store after the except clause of generate_response (lines 91-93):
\* it logs and raises again, and touches nothing
HistoryAfterError(history, c) == history

\* mutant: the id argument is returned instead of the id in use
ReturnValue_Argument(c, ai_message) ==
  [response |-> ai_message, conversation_id |-> c.supplied]

\* what generate_response returns (lines 80-89; model and usage left out)
ReturnValue(c, ai_message) ==
  [response |-> ai_message, conversation_id |-> c.conversation_id]

IdleCall == [supplied |-> None, conversation_id |-> None, user_message |-> <<>>,
             context |-> <<>>, messages |-> <<>>, attempts |-> 0,
             before |-> <<>>, fresh |-> FALSE, ids_before |-> {}]
NoOutcome == [op |-> "none"]

\* the request slot a new request takes: the lowest free one
FreeSlot == CHOOSE p \in Procs : pc[p] = "idle" /\ \A q \in Procs : pc[q] = "idle" => p <= q
AllIdle == \A p \in Procs : pc[p] = "idle"

\* the store after n sequential exchanges on conversation "a"
RECURSIVE Exchanges(_, _)
Exchanges(cid, n) ==
  IF n = 0 THEN <<>>
  ELSE Append(Exchanges(cid, n - 1),
              <<UserText(cid, n), ReplyText(UserText(cid, n))>>)

RECURSIVE Flatten(_)
Flatten(pairs) ==
  IF pairs = <<>> THEN <<>>
  ELSE Exchange(Head(pairs)[1], Head(pairs)[2]) \o Flatten(Tail(pairs))


\* ===================================================================
\* Neo4jClient: the graph store and natural_language_query
\* ===================================================================
\* A Python string is the sequence of its characters.
S_server == <<"s", "e", "r", "v", "e", "r">>
S_application == <<"a", "p", "p", "l", "i", "c", "a", "t", "i", "o", "n">>
S_list == <<"l", "i", "s", "t">>
S_show == <<"s", "h", "o", "w">>
S_all == <<"a", "l", "l">>
S_what == <<"w", "h", "a", "t">>
S_ubuntu == <<"u", "b", "u", "n", "t", "u">>
S_windows == <<"w", "i", "n", "d", "o", "w", "s">>
S_centos == <<"c", "e", "n", "t", "o", "s">>
S_linux == <<"l", "i", "n", "u", "x">>
S_rhel == <<"r", "h", "e", "l">>
S_location == <<"l", "o", "c", "a", "t", "i", "o", "n">>
S_loc == <<"l", "o", "c">>

UpperCase == <<"A", "B", "C", "D", "E", "F", "G", "H", "I", "J", "K", "L", "M", "N", "O", "P", "Q", "R", "S", "T", "U", "V", "W", "X", "Y", "Z">>
LowerCase == <<"a", "b", "c", "d", "e", "f", "g", "h", "i", "j", "k", "l", "m", "n", "o", "p", "q", "r", "s", "t", "u", "v", "w", "x", "y", "z">>
Digits == {"0", "1", "2", "3", "4", "5", "6", "7", "8", "9"}

\* str.lower and str.upper on one character
LowerChar(ch) ==
  IF \E i \in 1..26 : UpperCase[i] = ch
  THEN LowerCase[CHOOSE i \in 1..26 : UpperCase[i] = ch] ELSE ch
UpperChar(ch) ==
  IF \E i \in 1..26 : LowerCase[i] = ch
  THEN UpperCase[CHOOSE i \in 1..26 : LowerCase[i] = ch] ELSE ch

\* str.lower()
Lower(s) == [i \in 1..Len(s) |-> LowerChar(s[i])]
\* str.capitalize(): first character upper case, the rest lower case
Capitalize(s) == [i \in 1..Len(s) |-> IF i = 1 THEN UpperChar(s[i]) ELSE LowerChar(s[i])]

\* w occurs in s at position i
OccursAt(w, s, i) == i + Len(w) - 1 <= Len(s) /\ SubSeq(s, i, i + Len(w) - 1) = w
\* the Python test  w in s
Contains(s, w) == \E i \in 1..(Len(s) + 1) : OccursAt(w, s, i)

\* re.search(w + r'\d+', s): the leftmost place where w is followed by a digit,
\* with all the digits that follow (group(0)); <<>> when there is no match
MatchesAt(w, s, i) ==
  OccursAt(w, s, i) /\ i + Len(w) <= Len(s) /\ s[i + Len(w)] \in Digits
RECURSIVE DigitsEnd(_, _)
DigitsEnd(s, j) == IF j + 1 <= Len(s) /\ s[j + 1] \in Digits THEN DigitsEnd(s, j + 1) ELSE j
ReSearch(w, s) ==
  IF \E i \in 1..Len(s) : MatchesAt(w, s, i)
  THEN LET i == CHOOSE k \in 1..Len(s) :
                   MatchesAt(w, s, k) /\ \A l \in 1..(k - 1) : ~MatchesAt(w, s, l)
       IN  SubSeq(s, i, DigitsEnd(s, i + Len(w)))
  ELSE <<>>

\* ---- the graph database -------------------------------------------
\* a null of Cypher
Null == <<"<null>">>
\* a result record (a Python dict) is the sequence of its key/value pairs
EmptyDict == <<>>

\* the graph: node lists in the order MATCH yields them, and edge sets of
\* <<server id, other id>>
EmptyGraph ==
  [servers |-> <<>>, applications |-> <<>>, oses |-> <<>>, locations |-> <<>>,
   runs_on |-> {}, hosts |-> {}, located_in |-> {}]

Srv(n) == [id |-> S_server \o <<n>>, name |-> <<"s", n>>]
SampleGraph ==
  [servers |-> <<Srv("1"), Srv("2"), Srv("3"), Srv("4"), Srv("5"), Srv("6")>>,
   applications |-> <<[id |-> <<"a", "1">>, name |-> <<"w", "e", "b">>],
                      [id |-> <<"a", "2">>, name |-> <<"d", "b">>]>>,
   oses |-> <<[id |-> <<"o", "1">>, name |-> <<"U", "b", "u", "n", "t", "u", " ", "2", "0">>],
              [id |-> <<"o", "2">>, name |-> <<"C", "e", "n", "t", "O", "S", " ", "7">>]>>,
   locations |-> <<[id |-> <<"l", "o", "c", "3">>, name |-> <<"l">>]>>,
   runs_on |-> {<<Srv("1").id, <<"o", "1">>>>, <<Srv("2").id, <<"o", "2">>>>},
   hosts |-> {<<Srv("1").id, <<"a", "1">>>>, <<Srv("1").id, <<"a", "2">>>>,
              <<Srv("2").id, <<"a", "1">>>>},
   located_in |-> {<<Srv("1").id, <<"l", "o", "c", "3">>>>, <<Srv("3").id, <<"l", "o", "c", "3">>>>}]

Graphs == {EmptyGraph, SampleGraph}

Take(s, n) == IF Len(s) > n THEN SubSeq(s, 1, n) ELSE s
MapSeq(s, F(_)) == [i \in 1..Len(s) |-> F(s[i])]

\* the nodes of list `nodes` that server s has an edge to in `edges`
Linked(nodes, edges, s) == SelectSeq(nodes, LAMBDA n : <<s.id, n.id>> \in edges)
\* OPTIONAL MATCH: the matches, or one null when there is none
Optional(matches) == IF matches = <<>> THEN <<Null>> ELSE MapSeq(matches, LAMBDA n : n.name)
OptionalId(matches) == IF matches = <<>> THEN <<Null>> ELSE MapSeq(matches, LAMBDA n : n.id)

RECURSIVE Distinct(_)
Distinct(s) ==
  IF s = <<>> THEN <<>>
  ELSE LET rest == Distinct(SubSeq(s, 1, Len(s) - 1))
           last == s[Len(s)]
       IN  IF \E i \in 1..Len(rest) : rest[i] = last THEN rest ELSE Append(rest, last)

RECURSIVE Concat(_)
Concat(ss) == IF ss = <<>> THEN <<>> ELSE Head(ss) \o Concat(Tail(ss))

\* query_servers (lines 56-63)
query_servers(g, limit) ==
  Take(MapSeq(g.servers, LAMBDA s : << <<"id", s.id>>, <<"name", s.name>> >>), limit)

\* query_applications (lines 65-72)
query_applications(g, limit) ==
  Take(MapSeq(g.applications, LAMBDA a : << <<"id", a.id>>, <<"name", a.name>> >>), limit)

\* the rows of query_server_details: one per operating system and location of
\* the server (null when it has none), each with the server's application names
ServerDetailRows(g, server_id) ==
  Concat(MapSeq(SelectSeq(g.servers, LAMBDA s : s.id = server_id), LAMBDA s :
    Concat(MapSeq(Optional(Linked(g.oses, g.runs_on, s)), LAMBDA os :
      MapSeq(OptionalId(Linked(g.locations, g.located_in, s)), LAMBDA loc :
        << <<"server_id", s.id>>, <<"server_name", s.name>>,
           <<"operating_system", os>>,
           <<"applications",
             Distinct(MapSeq(Linked(g.applications, g.hosts, s), LAMBDA a : a.name))>>,
           <<"location", loc>> >>)))))

\* query_server_details (lines 74-93)
query_server_details(g, server_id) ==
  LET results == ServerDetailRows(g, server_id)
  IN  IF results # <<>> THEN results[1] ELSE EmptyDict

\* query_applications_by_os (lines 95-104)
query_applications_by_os(g, os_name) ==
  Distinct(Concat(MapSeq(g.servers, LAMBDA s :
    Concat(MapSeq(SelectSeq(Linked(g.oses, g.runs_on, s),
                            LAMBDA os : Contains(os.name, os_name)), LAMBDA os :
      MapSeq(Linked(g.applications, g.hosts, s), LAMBDA app :
        << <<"app_id", app.id>>, <<"app_name", app.name>>,
           <<"server_name", s.name>>, <<"os_name", os.name>> >>))))))

\* query_servers_by_location (lines 106-116)
query_servers_by_location(g, location_id) ==
  Concat(MapSeq(SelectSeq(g.servers, LAMBDA s : <<s.id, location_id>> \in g.located_in
                                        /\ \E i \in 1..Len(g.locations) :
                                              g.locations[i].id = location_id),
    LAMBDA s :
      MapSeq(Optional(Linked(g.oses, g.runs_on, s)), LAMBDA os :
        << <<"server_id", s.id>>, <<"server_name", s.name>>,
           <<"operating_system", os>>,
           <<"applications",
             MapSeq(Linked(g.applications, g.hosts, s), LAMBDA a : a.name)>> >>)))

\* the statistics query of natural_language_query (lines 184-190): a MATCH that
\* finds no application or no OS leaves no row
stats_query(g) ==
  IF g.applications = <<>> \/ g.oses = <<>> THEN <<>>
  ELSE << << <<"server_count", Len(g.servers)>>,
             <<"app_count", Len(g.applications)>>,
             <<"os_count", Len(g.oses)>> >> >>

\* ---- natural_language_query (lines 118-195) -------------------------
\* line 131
IsListServers(query_lower) ==
  /\ Contains(query_lower, S_server)
  /\ \E word \in {S_list, S_show, S_all, S_what} : Contains(query_lower, word)

\* line 139
IsListApplications(query_lower) ==
  /\ Contains(query_lower, S_application)
  /\ \E word \in {S_list, S_show, S_all} : Contains(query_lower, word)

\* line 147
IsOsQuery(query_lower) ==
  \/ Contains(query_lower, S_ubuntu) \/ Contains(query_lower, S_windows)
  \/ Contains(query_lower, S_centos) \/ Contains(query_lower, S_linux)

\* line 149
os_keywords == <<S_ubuntu, S_windows, S_centos, S_linux, S_rhel>>

\* line 150: next((word for word in os_keywords if word in query_lower), "")
os_name_of(query_lower) ==
  IF \E i \in 1..Len(os_keywords) : Contains(query_lower, os_keywords[i])
  THEN os_keywords[CHOOSE i \in 1..Len(os_keywords) :
           /\ Contains(query_lower, os_keywords[i])
           /\ \A j \in 1..(i - 1) : ~Contains(query_lower, os_keywords[j])]
  ELSE <<>>

\* line 158
IsLocationQuery(query_lower) ==
  Contains(query_lower, S_location) \/ Contains(query_lower, S_loc)

\* mutant: the digits of the pattern are optional (loc\d*, server\d*)
ReSearch_DigitsOptional(w, s) ==
  IF Contains(s, w)
  THEN LET i == CHOOSE k \in 1..Len(s) :
                   OccursAt(w, s, k) /\ \A l \in 1..(k - 1) : ~OccursAt(w, s, l)
       IN  SubSeq(s, i, DigitsEnd(s, i + Len(w) - 1))
  ELSE <<>>

\* lines 161 and 173: re.search(r'loc\d+', ...), re.search(r'server\d+', ...)
re_search(w, s) == ReSearch(w, s)

\* the dictionary natural_language_query returns; `query` is a history field:
\* the graph query that was run and its argument
natural_language_query(g, user_query) ==
  LET query_lower == Lower(user_query)
      loc_match == re_search(S_loc, query_lower)
      server_match == re_search(S_server, query_lower)
  IN  IF IsListServers(query_lower)
      THEN LET results == query_servers(g, 50)
           IN  [intent |-> "list_servers", results |-> results,
                summary |-> <<"Found", Len(results), "servers">>,
                query |-> <<"query_servers", 50>>]
      ELSE IF IsListApplications(query_lower)
      THEN LET results == query_applications(g, 50)
           IN  [intent |-> "list_applications", results |-> results,
                summary |-> <<"Found", Len(results), "applications">>,
                query |-> <<"query_applications", 50>>]
      ELSE IF IsOsQuery(query_lower)
      THEN LET os_name == os_name_of(query_lower)
               results == query_applications_by_os(g, Capitalize(os_name))
           IN  [intent |-> "query_by_os", results |-> results,
                summary |-> <<"Found", Len(results), "applications on", os_name, "servers">>,
                query |-> <<"query_applications_by_os", Capitalize(os_name)>>]
      ELSE IF IsLocationQuery(query_lower) /\ loc_match # <<>>
      THEN LET results == query_servers_by_location(g, loc_match)
           IN  [intent |-> "query_by_location", results |-> results,
                summary |-> <<"Found", Len(results), "servers in", loc_match>>,
                query |-> <<"query_servers_by_location", loc_match>>]
      ELSE IF server_match # <<>>
      THEN [intent |-> "server_details",
            results |-> <<query_server_details(g, server_match)>>,
            summary |-> <<"Details for", server_match>>,
            query |-> <<"query_server_details", server_match>>]
      ELSE [intent |-> "general_info", results |-> stats_query(g),
            summary |-> <<"Graph database statistics">>,
            query |-> <<"stats_query", <<>> >>]

\* ---- the texts a client sends ---------------------------------------
Ex_list_all_servers == <<"l", "i", "s", "t", " ", "a", "l", "l", " ", "s", "e", "r", "v", "e", "r", "s">>
Ex_show_all_applications == <<"s", "h", "o", "w", " ", "a", "l", "l", " ", "a", "p", "p", "l", "i", "c", "a", "t", "i", "o", "n", "s">>
Ex_apps_on_ubuntu == <<"a", "p", "p", "s", " ", "o", "n", " ", "u", "b", "u", "n", "t", "u">>
Ex_servers_in_loc3 == <<"s", "e", "r", "v", "e", "r", "s", " ", "i", "n", " ", "l", "o", "c", "3">>
Ex_details_for_server42 == <<"d", "e", "t", "a", "i", "l", "s", " ", "f", "o", "r", " ", "s", "e", "r", "v", "e", "r", "4", "2">>
Examples == {Ex_list_all_servers, Ex_show_all_applications, Ex_apps_on_ubuntu,
             Ex_servers_in_loc3, Ex_details_for_server42}

Vocabulary == {<<"l", "i", "s", "t", " ">>,
               <<"a", "l", "l">>,
               <<"s", "e", "r", "v", "e", "r">>,
               <<"a", "p", "p", "l", "i", "c", "a", "t", "i", "o", "n">>,
               <<"u", "b", "u", "n", "t", "u", " ">>,
               <<"r", "h", "e", "l", " ">>,
               <<"L", "i", "n", "u", "x">>,
               <<"l", "o", "c">>,
               <<"3">>,
               <<"w", "h", "a", "t", " ">>}

RECURSIVE Phrases(_)
Phrases(n) ==
  IF n = 0 THEN {<<>>}
  ELSE {p \o w : p \in Phrases(n - 1), w \in Vocabulary}

\* the texts of at most MaxWords pieces of the vocabulary, and the examples
Inputs == Examples \cup UNION {Phrases(k) : k \in 0..MaxWords}

\* ===================================================================
\* app.py: the chat endpoint
\* ===================================================================
\* the texts of the chat requests
S_hello == <<"h", "e", "l", "l", "o">>
ChatMessages == {Ex_list_all_servers, Ex_details_for_server42, Ex_apps_on_ubuntu, S_hello}

\* an Optional value: <<>> is None, <<x>> is x
NoneValue == <<>>
Some(x) == <<x>>

\* graph_results when the graph was not queried
NoGraphResults == [intent |-> "none", results |-> <<>>, summary |-> <<>>,
                   query |-> <<>>]
IdleChat == [request |-> [message |-> <<>>, conversation_id |-> None, use_rag |-> FALSE],
             graph_results |-> NoGraphResults, sources |-> <<>>, calls |-> <<>>]
NoResponse == [status |-> 0]

\* what the exceptions of the collaborators say (str(e))
DbError == "database unavailable"
LlmError == "completion failed"

\* mutant: every result goes into the context (no [:5])
format_context_All(graph_results) ==
  << <<"Graph Query Results", graph_results.intent>>, graph_results.summary >>
  \o [i \in 1..Len(graph_results.results) |-> <<i, graph_results.results[i]>>]

\* lines 90-95: the header, the summary, and a numbered line for each of the
\* first five results
format_context(graph_results) ==
  LET top == Take(graph_results.results, 5)
  IN  << <<"Graph Query Results", graph_results.intent>>, graph_results.summary >>
      \o [i \in 1..Len(top) |-> <<i, top[i]>>]

\* line 97
chat_sources(graph_results) == <<[type |-> "graph_query", data |-> graph_results]>>

\* lines 107-111
ChatResponse(ai_response, sources) ==
  [response |-> ai_response.response,
   conversation_id |-> ai_response.conversation_id,
   sources |-> IF sources # <<>> THEN Some(sources) ELSE NoneValue]

\* mutant: the response hides what the exception said
HTTPException500_Generic(detail) == [status |-> 500, detail |-> "Internal Server Error"]

\* lines 113-115
HTTPException500(detail) == [status |-> 500, detail |-> detail]

\* ===================================================================
\* app.py: the GET endpoints of the graph
\* ===================================================================
\* get_graph_summary of Neo4jClient (lines 197-207): each MATCH ... WITH that
\* carries a count forward groups by it, so a MATCH that finds nothing leaves
\* no row and the summary is the empty dict
graph_summary(g) ==
  IF g.applications = <<>> \/ g.oses = <<>>
     \/ g.runs_on \cup g.hosts \cup g.located_in = {}
  THEN EmptyDict
  ELSE << <<"servers", Len(g.servers)>>, <<"apps", Len(g.applications)>>,
          <<"oses", Len(g.oses)>>,
          <<"relationships", Cardinality(g.runs_on) + Cardinality(g.hosts)
                             + Cardinality(g.located_in)>> >>

\* what the try block of a handler came to: a value, or an exception
Returns(value) == [raised |-> "none", value |-> value]
RaisesException(message) == [raised |-> "Exception", detail |-> message]
RaisesHTTPException(status_code, detail) ==
  [raised |-> "HTTPException", status_code |-> status_code, detail |-> detail]

\* f"Server {server_id} not found"
NotFoundDetail(server_id) == <<"Server ", server_id, " not found">>

\* the try block of get_server_details (app.py lines 168-176)
get_server_details_try(g, server_id, db_ok) ==
  IF ~db_ok THEN RaisesException(DbError)
  ELSE LET details == query_server_details(g, server_id)
       IN  IF details = EmptyDict
           THEN RaisesHTTPException(404, NotFoundDetail(server_id))
           ELSE Returns([status |-> "success", server |-> details])

\* mutant: the HTTPException falls into the handler of Exception
ExceptHTTPException_AsException(e) == HTTPException500(e.detail)

\* lines 177-178: except HTTPException: raise
ExceptHTTPException(e) == [status |-> e.status_code, detail |-> e.detail]

\* the response a handler's outcome becomes: the except clauses in their order
\* (lines 177-181), or the 200 of a return
Respond(outcome) ==
  IF outcome.raised = "HTTPException" THEN ExceptHTTPException(outcome)
  ELSE IF outcome.raised = "Exception" THEN HTTPException500(outcome.detail)
  ELSE [status |-> 200, body |-> outcome.value]

\* get_server_details (app.py lines 165-181)
get_server_details(g, server_id, db_ok) ==
  Respond(get_server_details_try(g, server_id, db_ok))

\* get_servers (app.py lines 133-146)
get_servers(g, limit, db_ok) ==
  Respond(IF ~db_ok THEN RaisesException(DbError)
          ELSE LET servers == query_servers(g, limit)
               IN  Returns([status |-> "success", count |-> Len(servers),
                            servers |-> servers]))

\* get_applications (app.py lines 149-162)
get_applications(g, limit, db_ok) ==
  Respond(IF ~db_ok THEN RaisesException(DbError)
          ELSE LET applications == query_applications(g, limit)
               IN  Returns([status |-> "success", count |-> Len(applications),
                            applications |-> applications]))

\* get_graph_summary (app.py lines 118-130)
get_graph_summary(g, db_ok) ==
  Respond(IF ~db_ok THEN RaisesException(DbError)
          ELSE Returns([status |-> "success", summary |-> graph_summary(g)]))

\* the ids GET /graph/server/{server_id} is asked for: servers with and
\* without neighbours, ids no server has, and the id of an application
ServerIdsAsked == {Srv("1").id, Srv("2").id, Srv("3").id, Srv("4").id, Srv("7").id,
                   S_server \o <<"4", "2">>, <<"a", "1">>}
Limits == {1, 50}

\* ===================================================================
\* load_graph_data.py: GraphDataLoader
\* ===================================================================
\* the node labels and the relationship types
Labels == {"Server", "Application", "OS", "Location"}

\* the rows the CSV files are made of; ids are unique per file name only: "a1"
\* is an application, so a RUNS_ON row that ends in "a1" names no OS
ServerRows == {[id |-> "s1", name |-> "alpha"], [id |-> "s2", name |-> "beta"]}
ApplicationRows == {[id |-> "a1", name |-> "web"]}
OsRows == {[id |-> "o1", name |-> "Ubuntu"]}
RunsOnRows == {[start |-> "s1", end |-> "o1"], [start |-> "s2", end |-> "a1"]}
HostsRows == {[start |-> "s1", end |-> "a1"], [start |-> "s2", end |-> "a1"]}
LocatedInRows == {[start |-> "s1", end |-> "l1"], [start |-> "s2", end |-> "l2"]}

\* csv.DictReader: a file is the list of its rows, a row may be there twice
Files(rows, n) == UNION {[1..k -> rows] : k \in 0..n}

CsvFolders ==
  [servers : Files(ServerRows, MaxRows), applications : Files(ApplicationRows, 1),
   oses : Files(OsRows, 1), runs_on : Files(RunsOnRows, MaxRows),
   hosts : Files(HostsRows, MaxRows), located_in : Files(LocatedInRows, MaxRows)]

EmptyCsv == [servers |-> <<>>, applications |-> <<>>, oses |-> <<>>,
             runs_on |-> <<>>, hosts |-> <<>>, located_in |-> <<>>]

\* the database: per label the nodes in the order they were created, per
\* relationship type the edges as <<start id, end id>> in that order (a node
\* or an edge that was created twice is there twice), and the labels that
\* have a uniqueness constraint on id
EmptyDb == [servers |-> <<>>, applications |-> <<>>, oses |-> <<>>, locations |-> <<>>,
            runs_on |-> <<>>, hosts |-> <<>>, located_in |-> <<>>, constraints |-> {}]

\* how many entries of a list satisfy id = x
CountId(nodes, x) == Cardinality({i \in 1..Len(nodes) : nodes[i].id = x})
CountEdge(edges, e) == Cardinality({i \in 1..Len(edges) : edges[i] = e})
Ids(nodes) == {nodes[i].id : i \in 1..Len(nodes)}

\* mutant: CREATE in place of MERGE
merge_node_Create(nodes, id, name) == Append(nodes, [id |-> id, name |-> name])

\* MERGE (n:Label {id: id}) SET n.name = name: the nodes with that id get the
\* name; when there is none, one is created
merge_node(nodes, id, name) ==
  IF \E i \in 1..Len(nodes) : nodes[i].id = id
  THEN [i \in 1..Len(nodes) |->
          IF nodes[i].id = id THEN [id |-> id, name |-> name] ELSE nodes[i]]
  ELSE Append(nodes, [id |-> id, name |-> name])

\* UNWIND $rows AS row MERGE ... SET ...: row after row
RECURSIVE merge_nodes(_, _)
merge_nodes(nodes, rows) ==
  IF rows = <<>> THEN nodes
  ELSE merge_nodes(merge_node(nodes, Head(rows).id, Head(rows).name), Tail(rows))

\* mutant: the endpoints are not matched first (MERGE of the whole path)
merge_edge_Unmatched(edges, starts, ends, rel) ==
  IF CountEdge(edges, <<rel.start, rel.end>>) = 0
  THEN Append(edges, <<rel.start, rel.end>>) ELSE edges

\* MATCH (s:Server {id: rel.start}) MATCH (e:Label {id: rel.end})
\* MERGE (s)-[:TYPE]->(e): for each pair of matched nodes an edge is created
\* unless the pair has one
merge_edge(edges, starts, ends, rel) ==
  LET pairs == CountId(starts, rel.start) * CountId(ends, rel.end)
      have == CountEdge(edges, <<rel.start, rel.end>>)
  IN  IF pairs > have
      THEN edges \o [i \in 1..(pairs - have) |-> <<rel.start, rel.end>>]
      ELSE edges

RECURSIVE merge_edges(_, _, _, _)
merge_edges(edges, starts, ends, rels) ==
  IF rels = <<>> THEN edges
  ELSE merge_edges(merge_edge(edges, starts, ends, Head(rels)), starts, ends, Tail(rels))

\* clear_database (lines 21-26): MATCH (n) DETACH DELETE n; constraints stay
clear_database(d) == [EmptyDb EXCEPT !.constraints = d.constraints]

\* create_constraints (lines 28-42): an exception of a statement is logged and
\* swallowed; the four statements are answered by the same database
create_constraints(d, db_ok) ==
  IF db_ok THEN [d EXCEPT !.constraints = Labels] ELSE d

\* load_servers (lines 44-59), load_applications (61-76),
\* load_operating_systems (78-93)
load_servers(d, files) == [d EXCEPT !.servers = merge_nodes(@, files.servers)]
load_applications(d, files) ==
  [d EXCEPT !.applications = merge_nodes(@, files.applications)]
load_operating_systems(d, files) == [d EXCEPT !.oses = merge_nodes(@, files.oses)]

\* line 102: set(row['end'] for row in reader)
location_ids(files) == {files.located_in[i].end : i \in 1..Len(files.located_in)}
\* line 109: list(locations), in an order Python does not promise
Orderings(S) ==
  {f \in [1..Cardinality(S) -> S] : \A i, j \in 1..Cardinality(S) : f[i] = f[j] => i = j}

\* load_locations (lines 95-110), for one order of the set
load_locations(d, locations) ==
  [d EXCEPT !.locations =
     merge_nodes(@, [i \in 1..Len(locations) |->
                        [id |-> locations[i], name |-> locations[i]]])]

\* load_runs_on_relationships (lines 112-128)
load_runs_on_relationships(d, files) ==
  [d EXCEPT !.runs_on = merge_edges(@, d.servers, d.oses, files.runs_on)]
\* load_hosts_relationships (lines 130-146)
load_hosts_relationships(d, files) ==
  [d EXCEPT !.hosts = merge_edges(@, d.servers, d.applications, files.hosts)]
\* load_located_in_relationships (lines 148-165)
load_located_in_relationships(d, files) ==
  [d EXCEPT !.located_in = merge_edges(@, d.servers, d.locations, files.located_in)]

\* the database as the queries of Neo4jClient see it
AsGraph(d) ==
  [servers |-> d.servers, applications |-> d.applications, oses |-> d.oses,
   locations |-> d.locations,
   runs_on |-> {d.runs_on[i] : i \in 1..Len(d.runs_on)},
   hosts |-> {d.hosts[i] : i \in 1..Len(d.hosts)},
   located_in |-> {d.located_in[i] : i \in 1..Len(d.located_in)}]

\* load_all at rest; before and from_loaded are history fields: the database
\* when load_all was called, and whether that was what a finished load_all
\* had left; trace lists the steps load_all has taken
IdleLoader == [pc |-> "idle", clear_first |-> FALSE, trace |-> <<>>,
               before |-> EmptyDb, from_loaded |-> FALSE, summary |-> EmptyDict]
NodeSteps == {"load_servers", "load_applications", "load_operating_systems",
              "load_locations"}
EdgeSteps == {"load_runs_on_relationships", "load_hosts_relationships",
              "load_located_in_relationships"}

\* ===================================================================
\* rag_engine.py: RAGEngine
\* ===================================================================
\* the fields class Settings declares (config.py lines 9-23)
ConfigSettings == {"openai_api_key", "openai_model", "openai_temperature",
                   "openai_max_tokens", "neo4j_uri", "neo4j_user", "neo4j_password",
                   "app_name", "debug"}
\* the fields rag_engine.py reads from settings (lines 33, 34, 48, 57, 150,
\* 228); config.py declares none of them, the specification lists them among
\* the settings
RagSettings == {"chunk_size", "chunk_overlap", "embedding_model",
                "persist_directory", "top_k_results"}
\* settings.top_k_results where Settings has it
top_k_results == 2
\* the Settings a process may run with: as config.py declares them, where
\* reading a field of RagSettings raises AttributeError, and with those fields
SettingsVariants == {ConfigSettings, ConfigSettings \cup RagSettings}

\* lines 73-76, 82-85, 210-213: the sentinel document
dummy_doc == [page_content |-> "Initial setup document", metadata |-> [type |-> "system"]]

\* dict.get
Get(dict, key) == IF key \in DOMAIN dict THEN dict[key] ELSE None

\* no RAGEngine object: the constructor has not run, or it raised
NoEngine == [constructed |-> FALSE, settings |-> ConfigSettings,
             embeddings |-> NoneValue, vector_store |-> NoneValue, ndocs |-> 0]
\* RAGEngine.__init__ (lines 27-41); ndocs is a history field, the number of
\* document ids uuid4 has made
NewEngine(settings, ndocs) ==
  [constructed |-> TRUE, settings |-> settings,
   embeddings |-> NoneValue, vector_store |-> NoneValue, ndocs |-> ndocs]

\* what the outside does during one operation: whether OpenAIEmbeddings(...)
\* can be built, whether the embedding API answers the first and a second
\* call, whether the index files load, whether they can be saved
Envs == [emb_ok : BOOLEAN, api_ok : BOOLEAN, again_ok : BOOLEAN,
         load_ok : BOOLEAN, save_ok : BOOLEAN]

\* _initialize_vector_store (lines 55-86): <<>> when it raises, else the store
initialize_vector_store(r, d, env) ==
  IF "persist_directory" \notin r.settings THEN NoneValue     \* line 57
  ELSE IF d # NoneValue /\ env.load_ok THEN Some(d[1])         \* lines 61-69
  ELSE IF d = NoneValue /\ env.api_ok THEN Some(<<dummy_doc>>) \* lines 70-77
  ELSE IF env.again_ok THEN Some(<<dummy_doc>>)                \* lines 79-86
  ELSE NoneValue

\* _ensure_initialized (lines 43-53): the engine after it, and whether it raised
ensure_initialized(r, d, env) ==
  IF r.embeddings = NoneValue /\ ("embedding_model" \notin r.settings \/ ~env.emb_ok)
  THEN [rag |-> r, raised |-> TRUE]
  ELSE LET r1 == [r EXCEPT !.embeddings = Some("OpenAIEmbeddings")]
       IN  IF r1.vector_store # NoneValue THEN [rag |-> r1, raised |-> FALSE]
           ELSE LET store == initialize_vector_store(r1, d, env)
                IN  IF store = NoneValue THEN [rag |-> r1, raised |-> TRUE]
                    ELSE [rag |-> [r1 EXCEPT !.vector_store = store], raised |-> FALSE]

\* _persist_vector_store (lines 225-238): an error is logged and swallowed
persist_vector_store(r, d, env) ==
  IF "persist_directory" \in r.settings /\ env.save_ok THEN r.vector_store ELSE d

\* similarity_search_with_score(query, k): the k nearest documents of the
\* index, nearest first, as positions of the index; which documents are near
\* the query is for the embedding to say, so every ranking is possible
Rankings(index, k) ==
  LET n == IF k < Len(index) THEN k ELSE Len(index)
  IN  {f \in [1..n -> 1..Len(index)] : \A i, j \in 1..n : f[i] = f[j] => i = j}

\* mutant: the sentinel is not filtered out
filter_system_None(results) == results

\* lines 158-161: the results whose metadata type is not "system"
filter_system(results) ==
  SelectSeq(results, LAMBDA pair : Get(pair[1].metadata, "type") # "system")

EmptyContext == [context |-> <<>>, sources |-> <<>>]

\* lines 167-187: the context and the sources of the results that are left
format_results(results) ==
  [context |-> [i \in 1..Len(results) |-> <<"Source", i, results[i][1].page_content>>],
   sources |-> [i \in 1..Len(results) |->
                  [source_id |-> i,
                   content |-> <<results[i][1].page_content, "...">>,
                   score |-> results[i][2],
                   metadata |-> results[i][1].metadata]]]

\* the try block of retrieve_context (lines 148-191) on an initialised engine;
\* the score of a document is its rank
retrieve_context_try(r, top_k, ranking, env) ==
  IF top_k = NoneValue /\ "top_k_results" \notin r.settings
  THEN EmptyContext                                                        \* 150, 189
  ELSE IF ~env.api_ok THEN EmptyContext                                    \* 155, 189
  ELSE LET index == r.vector_store[1]
           found == [i \in 1..Len(ranking) |-> <<index[ranking[i]], i>>]
           results == filter_system(found)
       IN  IF results = <<>> THEN EmptyContext ELSE format_results(results)

\* line 147 stands before the try of line 148: what _ensure_initialized raises
\* leaves retrieve_context
retrieve_context_raises(init) == init.raised

\* lines 113-119: the documents of the chunks of a text
chunk_documents(chunks, metadata, doc_id) ==
  [i \in 1..Len(chunks) |->
     [page_content |-> chunks[i],
      metadata |-> ("chunk_index" :> (i - 1)) @@ ("doc_id" :> doc_id) @@ metadata]]

\* the texts add_document is given, as the chunks split_text cuts them into
Contents == {<<"c1">>, <<"c1", "c2">>}
\* the metadata add_document is given: None, or a dict
Metadatas == {<<>>, [type |-> "system"], [source |-> "wiki"]}
Queries == {"q"}
\* top_k: None, or a number
TopKs == {NoneValue, Some(1), Some(2)}


\* ------------------------------------------------------------ actions
\* the client right after construction (lines 18-27)
InitNew ==
  /\ conversation_history = <<>>
  /\ pc = [p \in Procs |-> "idle"]
  /\ call = [p \in Procs |-> IdleCall]
  /\ ret = NoOutcome
  /\ uuids = 0
  /\ started = [c \in AllIds |-> 0]
  /\ log = [c \in AllIds |-> <<>>]
  /\ ncalls = 0 /\ nother = 0

\* the client after PreTurns sequential exchanges on conversation "a", a state
\* SpecSeq reaches from InitNew (PreloadReached)
InitPreloaded ==
  /\ conversation_history = ("a" :> Flatten(Exchanges("a", PreTurns)))
  /\ pc = [p \in Procs |-> "idle"]
  /\ call = [p \in Procs |-> IdleCall]
  /\ ret = NoOutcome
  /\ uuids = 0
  /\ started = [c \in AllIds |-> IF c = "a" THEN PreTurns ELSE 0]
  /\ log = [c \in AllIds |-> IF c = "a" THEN Exchanges("a", PreTurns) ELSE <<>>]
  /\ ncalls = 0 /\ nother = 0

\* generate_response up to the await of the completion call (lines 46-68)
GenerateResponseCall(p, user_message, context, supplied) ==
  /\ pc[p] = "idle"
  /\ p = FreeSlot
  /\ LET conversation_id == IF supplied = None THEN uuid4 ELSE supplied
         history == IF supplied = None
                    THEN [c \in DOMAIN conversation_history \cup {conversation_id} |->
                            IF c = conversation_id THEN <<>> ELSE conversation_history[c]]
                    ELSE conversation_history
         system_prompt == build_system_prompt(context)
         messages == get_conversation_messages(history, conversation_id,
                                               system_prompt, user_message)
     IN  /\ conversation_history' = history
         /\ uuids' = IF supplied = None THEN uuids + 1 ELSE uuids
         /\ started' = [started EXCEPT ![conversation_id] = @ + 1]
         /\ call' = [call EXCEPT ![p] =
                       [supplied |-> supplied, conversation_id |-> conversation_id,
                        user_message |-> user_message, context |-> context,
                        messages |-> messages, attempts |-> 1,
                        before |-> HistoryOf(conversation_history, conversation_id),
                        fresh |-> conversation_id \notin DOMAIN conversation_history,
                        ids_before |-> DOMAIN conversation_history]]
  /\ pc' = [pc EXCEPT ![p] = "awaiting"]
  /\ ret' = [op |-> "call", slot |-> p]
  /\ ncalls' = ncalls + 1
  /\ nother' = IF supplied = None THEN nother + 1 ELSE nother
  /\ UNCHANGED log

\* a request of a client: its text is named after the conversation it goes to
Request(p, supplied, context) ==
  /\ supplied = None => nother < MaxOther
  /\ LET cid == IF supplied = None THEN uuid4 ELSE supplied
     IN  GenerateResponseCall(p, UserText(cid, started[cid] + 1), context, supplied)

\* the completion call succeeded: lines 70-89; before and stored are history
\* fields: the history of the conversation when the call was made, and when
\* its completion returned
GenerateResponseReturn(p) ==
  /\ pc[p] = "awaiting"
  /\ LET c == call[p]
         ai_message == ReplyText(c.user_message)
     IN  /\ conversation_history' =
               update_conversation_history(conversation_history, c.conversation_id,
                                           c.user_message, ai_message)
         /\ ret' = [op |-> "returned", supplied |-> c.supplied,
                    user_message |-> c.user_message,
                    value |-> ReturnValue(c, ai_message),
                    before |-> c.before,
                    stored |-> HistoryOf(conversation_history, c.conversation_id)]
         /\ log' = [log EXCEPT ![c.conversation_id] =
                       Append(@, <<c.user_message, ai_message>>)]
  /\ call' = [call EXCEPT ![p] = IdleCall]
  /\ pc' = [pc EXCEPT ![p] = "idle"]
  /\ UNCHANGED <<uuids, started, ncalls, nother>>

\* the completion call raised: lines 91-93 log the error and raise it again
GenerateResponseRaise(p) ==
  /\ pc[p] = "awaiting"
  /\ nother < MaxOther
  /\ conversation_history' = HistoryAfterError(conversation_history, call[p])
  /\ ret' = [op |-> "raised", supplied |-> call[p].supplied,
             conversation_id |-> call[p].conversation_id,
             before |-> call[p].before, attempts |-> call[p].attempts,
             ids_before |-> call[p].ids_before]
  /\ call' = [call EXCEPT ![p] = IdleCall]
  /\ pc' = [pc EXCEPT ![p] = "idle"]
  /\ nother' = nother + 1
  /\ UNCHANGED <<uuids, started, log, ncalls>>

\* clear_conversation (lines 178-192)
ClearConversation(conversation_id) ==
  /\ IF conversation_id \in DOMAIN conversation_history
     THEN /\ nother < MaxOther
          /\ conversation_history' = del(conversation_history, conversation_id)
          /\ ret' = [op |-> "cleared", conversation_id |-> conversation_id,
                     value |-> TRUE]
          /\ nother' = nother + 1
          /\ log' = [log EXCEPT ![conversation_id] = <<>>]
     ELSE /\ ret' = [op |-> "cleared", conversation_id |-> conversation_id,
                     value |-> FALSE]
          /\ UNCHANGED <<conversation_history, nother, log>>
  /\ UNCHANGED <<pc, call, uuids, started, ncalls>>

\* the loader and the RAG engine are not run
LoaderIdle == csv = EmptyCsv /\ db = EmptyDb /\ loader = IdleLoader
RagIdle == rag = NoEngine /\ disk = NoneValue /\ rag_ret = NoOutcome

\* the graph query side at rest
NlqIdle ==
  /\ graph = EmptyGraph /\ query_text = <<>>
  /\ nlq_result = [raised |-> FALSE, done |-> FALSE] /\ seen_intents = {}
  /\ chat = [p \in Procs |-> IdleChat] /\ http = NoResponse
  /\ LoaderIdle /\ RagIdle

SuppliedIds == {None} \cup ClientIds \cup IssuedIds

\* requests overlap: a request may start while another awaits its completion
Init == (InitNew \/ InitPreloaded) /\ NlqIdle

Next ==
  \/ \E p \in Procs, supplied \in SuppliedIds, context \in Contexts :
        /\ ncalls < MaxConcurrentCalls
        /\ Request(p, supplied, context)
        /\ UNCHANGED <<nlqVars, chatVars, loadVars, ragVars>>
  \/ \E p \in Procs : GenerateResponseReturn(p) /\ UNCHANGED <<nlqVars, chatVars, loadVars, ragVars>>
  \/ \E p \in Procs : GenerateResponseRaise(p) /\ UNCHANGED <<nlqVars, chatVars, loadVars, ragVars>>
  \/ \E conversation_id \in ClientIds \cup IssuedIds :
        ClearConversation(conversation_id) /\ UNCHANGED <<nlqVars, chatVars, loadVars, ragVars>>

Spec == Init /\ [][Next]_vars

\* requests one after the other: a request starts when none is in flight
InitSeq == InitNew /\ NlqIdle

NextSeq ==
  \/ \E p \in Procs, supplied \in SuppliedIds, context \in Contexts :
        /\ ncalls < MaxCalls /\ AllIdle
        /\ Request(p, supplied, context)
        /\ UNCHANGED <<nlqVars, chatVars, loadVars, ragVars>>
  \/ \E p \in Procs : GenerateResponseReturn(p) /\ UNCHANGED <<nlqVars, chatVars, loadVars, ragVars>>
  \/ \E p \in Procs : GenerateResponseRaise(p) /\ UNCHANGED <<nlqVars, chatVars, loadVars, ragVars>>
  \/ \E conversation_id \in ClientIds \cup IssuedIds :
        AllIdle /\ ClearConversation(conversation_id) /\ UNCHANGED <<nlqVars, chatVars, loadVars, ragVars>>

SpecSeq == InitSeq /\ [][NextSeq]_vars

\* ---- natural_language_query, called on its own ----------------------
NoResult == [raised |-> FALSE, done |-> FALSE]
Raised == [raised |-> TRUE, done |-> TRUE]

InitNLQ ==
  /\ InitNew
  /\ graph \in Graphs
  /\ query_text \in Inputs
  /\ nlq_result = NoResult
  /\ seen_intents = {}
  /\ chat = [p \in Procs |-> IdleChat] /\ http = NoResponse
  /\ LoaderIdle /\ RagIdle

\* a call of natural_language_query; execute_query (lines 41-54) raises when
\* the database does not answer
NaturalLanguageQuery(db_ok) ==
  /\ IF db_ok
     THEN LET r == natural_language_query(graph, query_text)
          IN  /\ nlq_result' = [raised |-> FALSE, done |-> TRUE, value |-> r]
              /\ seen_intents' = seen_intents \cup {r.intent}
     ELSE /\ nlq_result' = Raised
          /\ UNCHANGED seen_intents
  /\ UNCHANGED <<graph, query_text>>
  /\ UNCHANGED <<storeVars, chatVars, loadVars, ragVars>>

\* the graph is written by the loader between two queries
GraphChange ==
  /\ \E g \in Graphs \ {graph} : graph' = g
  /\ UNCHANGED <<query_text, nlq_result, seen_intents>>
  /\ UNCHANGED <<storeVars, chatVars, loadVars, ragVars>>

NextNLQ ==
  \/ \E db_ok \in BOOLEAN : NaturalLanguageQuery(db_ok)
  \/ GraphChange

SpecNLQ == InitNLQ /\ [][NextNLQ]_vars

\* ---- the chat endpoint (app.py lines 66-115) ------------------------
InitChat ==
  /\ InitNew
  /\ graph \in Graphs
  /\ query_text = <<>> /\ nlq_result = NoResult /\ seen_intents = {}
  /\ chat = [p \in Procs |-> IdleChat] /\ http = NoResponse
  /\ LoaderIdle /\ RagIdle

\* chat up to the await of generate_response (lines 77-105): the graph query
\* is a blocking call, so all of this is one step
ChatCall(p, request, db_ok) ==
  /\ pc[p] = "idle"
  /\ p = FreeSlot
  /\ request.conversation_id = None => nother < MaxOther
  /\ IF request.use_rag /\ ~db_ok
     THEN \* natural_language_query raised: line 113 catches it
          /\ http' = HTTPException500(DbError)
                       @@ [request |-> request, calls |-> <<"natural_language_query">>,
                           graph_results |-> NoGraphResults]
          /\ ncalls' = ncalls + 1
          /\ UNCHANGED <<conversation_history, pc, call, ret, uuids, started, log,
                         nother, chat>>
     ELSE LET graph_results == IF request.use_rag
                               THEN natural_language_query(graph, request.message)
                               ELSE NoGraphResults
              found == request.use_rag /\ graph_results.results # <<>>
              context == IF found THEN format_context(graph_results) ELSE <<>>
              sources == IF found THEN chat_sources(graph_results) ELSE <<>>
          IN  /\ GenerateResponseCall(p, request.message, context,
                                      request.conversation_id)
              /\ chat' = [chat EXCEPT ![p] =
                            [request |-> request, graph_results |-> graph_results,
                             sources |-> sources,
                             calls |-> IF request.use_rag
                                       THEN <<"natural_language_query", "generate_response">>
                                       ELSE <<"generate_response">>]]
              /\ UNCHANGED http
  /\ UNCHANGED <<nlqVars, loadVars, ragVars>>

\* generate_response returned: lines 107-111
ChatReturn(p) ==
  /\ GenerateResponseReturn(p)
  /\ http' = [status |-> 200,
              body |-> ChatResponse(ReturnValue(call[p], ReplyText(call[p].user_message)),
                                    chat[p].sources),
              request |-> chat[p].request, calls |-> chat[p].calls,
              graph_results |-> chat[p].graph_results]
  /\ chat' = [chat EXCEPT ![p] = IdleChat]
  /\ UNCHANGED <<nlqVars, loadVars, ragVars>>

\* generate_response raised: lines 113-115
ChatRaise(p) ==
  /\ GenerateResponseRaise(p)
  /\ http' = HTTPException500(LlmError)
               @@ [request |-> chat[p].request, calls |-> chat[p].calls,
                   graph_results |-> chat[p].graph_results]
  /\ chat' = [chat EXCEPT ![p] = IdleChat]
  /\ UNCHANGED <<nlqVars, loadVars, ragVars>>

ChatRequests ==
  [message : ChatMessages, conversation_id : {None} \cup ClientIds, use_rag : BOOLEAN]

NextChat ==
  \/ \E p \in Procs, request \in ChatRequests, db_ok \in BOOLEAN :
        ncalls < MaxChats /\ ChatCall(p, request, db_ok)
  \/ \E p \in Procs : ChatReturn(p)
  \/ \E p \in Procs : ChatRaise(p)

SpecChat == InitChat /\ [][NextChat]_vars

\* ---- the GET endpoints of the graph (app.py lines 118-181) ----------
\* the response and, as history fields, the request, the graph it was
\* answered from and whether the graph query raised
Answer(response, request, db_ok) ==
  /\ ncalls < MaxRequests
  /\ http' = response @@ [request |-> request, graph |-> graph, raised |-> ~db_ok]
  /\ ncalls' = ncalls + 1
  /\ UNCHANGED <<conversation_history, pc, call, ret, uuids, started, log, nother>>
  /\ UNCHANGED <<nlqVars, chat, loadVars, ragVars>>

GetServerDetails(server_id, db_ok) ==
  Answer(get_server_details(graph, server_id, db_ok),
         [endpoint |-> "get_server_details", server_id |-> server_id], db_ok)

GetServers(limit, db_ok) ==
  Answer(get_servers(graph, limit, db_ok),
         [endpoint |-> "get_servers", limit |-> limit], db_ok)

GetApplications(limit, db_ok) ==
  Answer(get_applications(graph, limit, db_ok),
         [endpoint |-> "get_applications", limit |-> limit], db_ok)

GetGraphSummary(db_ok) ==
  Answer(get_graph_summary(graph, db_ok), [endpoint |-> "get_graph_summary"], db_ok)

InitGraphApi == InitChat

NextGraphApi ==
  \/ \E server_id \in ServerIdsAsked, db_ok \in BOOLEAN : GetServerDetails(server_id, db_ok)
  \/ \E limit \in Limits, db_ok \in BOOLEAN : GetServers(limit, db_ok)
  \/ \E limit \in Limits, db_ok \in BOOLEAN : GetApplications(limit, db_ok)
  \/ \E db_ok \in BOOLEAN : GetGraphSummary(db_ok)
  \/ GraphChange

SpecGraphApi == InitGraphApi /\ [][NextGraphApi]_vars

\* ---- GraphDataLoader.load_all (load_graph_data.py lines 166-190) ------
\* every execute_query is a transaction of its own: load_all is a step per
\* method it calls
InitLoad ==
  /\ InitNew
  /\ graph = EmptyGraph /\ query_text = <<>>
  /\ nlq_result = [raised |-> FALSE, done |-> FALSE] /\ seen_intents = {}
  /\ chat = [p \in Procs |-> IdleChat] /\ http = NoResponse
  /\ RagIdle
  /\ csv \in CsvFolders
  /\ db = EmptyDb
  /\ loader = IdleLoader

\* one step of load_all: the method `step` leaves the database as d and
\* load_all goes on to `next`
LoadStep(step, d, next) ==
  /\ loader.pc = step
  /\ db' = d
  /\ loader' = [loader EXCEPT !.pc = next, !.trace = Append(@, step)]
  /\ UNCHANGED <<csv, storeVars, nlqVars, chatVars, ragVars>>

\* load_all is called (lines 166-171)
LoadAll(clear_first) ==
  /\ loader.pc \in {"idle", "done"}
  /\ loader' = [pc |-> IF clear_first THEN "clear_database" ELSE "create_constraints",
                clear_first |-> clear_first, trace |-> <<>>, before |-> db,
                from_loaded |-> (loader.pc = "done"), summary |-> EmptyDict]
  /\ UNCHANGED <<csv, db, storeVars, nlqVars, chatVars, ragVars>>

ClearDatabase == LoadStep("clear_database", clear_database(db), "create_constraints")
CreateConstraints(db_ok) ==
  LoadStep("create_constraints", create_constraints(db, db_ok), "load_servers")
LoadServers == LoadStep("load_servers", load_servers(db, csv), "load_applications")
LoadApplications ==
  LoadStep("load_applications", load_applications(db, csv), "load_operating_systems")
LoadOperatingSystems ==
  LoadStep("load_operating_systems", load_operating_systems(db, csv), "load_locations")
LoadLocations(locations) ==
  LoadStep("load_locations", load_locations(db, locations), "load_runs_on_relationships")
LoadRunsOnRelationships ==
  LoadStep("load_runs_on_relationships", load_runs_on_relationships(db, csv),
           "load_hosts_relationships")
LoadHostsRelationships ==
  LoadStep("load_hosts_relationships", load_hosts_relationships(db, csv),
           "load_located_in_relationships")
LoadLocatedInRelationships ==
  LoadStep("load_located_in_relationships", load_located_in_relationships(db, csv),
           "get_graph_summary")

\* lines 187-190: the summary is read and returned
LoadAllReturn ==
  /\ loader.pc = "get_graph_summary"
  /\ loader' = [loader EXCEPT !.pc = "done", !.trace = Append(@, "get_graph_summary"),
                              !.summary = graph_summary(AsGraph(db))]
  /\ UNCHANGED <<csv, db, storeVars, nlqVars, chatVars, ragVars>>

NextLoad ==
  \/ \E clear_first \in BOOLEAN : LoadAll(clear_first)
  \/ ClearDatabase
  \/ \E db_ok \in BOOLEAN : CreateConstraints(db_ok)
  \/ LoadServers
  \/ LoadApplications
  \/ LoadOperatingSystems
  \/ \E locations \in Orderings(location_ids(csv)) : LoadLocations(locations)
  \/ LoadRunsOnRelationships
  \/ LoadHostsRelationships
  \/ LoadLocatedInRelationships
  \/ LoadAllReturn

SpecLoad == InitLoad /\ [][NextLoad]_vars

\* ---- RAGEngine (rag_engine.py) ---------------------------------------
InitRag ==
  /\ InitNew
  /\ graph = EmptyGraph /\ query_text = <<>>
  /\ nlq_result = [raised |-> FALSE, done |-> FALSE] /\ seen_intents = {}
  /\ chat = [p \in Procs |-> IdleChat] /\ http = NoResponse
  /\ LoaderIdle
  /\ \E settings \in SettingsVariants : rag = [NoEngine EXCEPT !.settings = settings]
  /\ disk = NoneValue
  /\ rag_ret = NoOutcome

RagUnchanged == UNCHANGED <<storeVars, nlqVars, chatVars, loadVars>>

\* a part of the outside that the operation does not get to use is taken to
\* answer: the embeddings are built once, the index files are read only while
\* there is no vector store, and `saves` says whether the operation saves
Outside(env, saves) ==
  /\ rag.embeddings # NoneValue => env.emb_ok
  /\ (rag.vector_store # NoneValue \/ disk = NoneValue) => env.load_ok
  /\ rag.vector_store # NoneValue => env.again_ok
  /\ ~saves => env.save_ok

\* a process starts and builds its RAGEngine (lines 27-41): reading
\* settings.chunk_size raises where Settings has no such field
Construct ==
  /\ IF {"chunk_size", "chunk_overlap"} \subseteq rag.settings
     THEN /\ rag' = NewEngine(rag.settings, rag.ndocs)
          /\ rag_ret' = [op |-> "RAGEngine", raised |-> FALSE]
     ELSE /\ rag' = [NoEngine EXCEPT !.settings = rag.settings, !.ndocs = rag.ndocs]
          /\ rag_ret' = [op |-> "RAGEngine", raised |-> TRUE]
  /\ UNCHANGED disk
  /\ RagUnchanged

\* add_document (lines 88-132)
AddDocument(content, metadata, env) ==
  /\ rag.constructed /\ Outside(env, TRUE)
  /\ rag.ndocs < MaxDocs
  /\ LET init == ensure_initialized(rag, disk, env)
         doc_id == <<"doc", rag.ndocs + 1>>
     IN  IF init.raised
         THEN /\ rag' = init.rag
              /\ rag_ret' = [op |-> "add_document", raised |-> TRUE]
              /\ UNCHANGED disk
         ELSE IF ~env.api_ok
         THEN \* add_documents raised: lines 130-132
              /\ rag' = [init.rag EXCEPT !.ndocs = @ + 1]
              /\ rag_ret' = [op |-> "add_document", raised |-> TRUE]
              /\ UNCHANGED disk
         ELSE LET r == [init.rag EXCEPT
                           !.ndocs = @ + 1,
                           !.vector_store =
                              Some(@[1] \o chunk_documents(content, metadata, doc_id))]
              IN  /\ rag' = r
                  /\ disk' = persist_vector_store(r, disk, env)
                  /\ rag_ret' = [op |-> "add_document", raised |-> FALSE,
                                 value |-> doc_id]
  /\ RagUnchanged

\* retrieve_context (lines 134-191); found is a history field, what the
\* similarity search gave before the filter
RetrieveContext(query, top_k, env) ==
  /\ rag.constructed /\ Outside(env, FALSE)
  /\ LET init == ensure_initialized(rag, disk, env)
     IN  /\ rag' = init.rag
         /\ IF retrieve_context_raises(init)
            THEN rag_ret' = [op |-> "retrieve_context", raised |-> TRUE,
                             initialised |-> ~init.raised]
            ELSE IF init.raised
            THEN rag_ret' = [op |-> "retrieve_context", raised |-> FALSE,
                             initialised |-> FALSE,
                             value |-> EmptyContext, found |-> <<>>, failed |-> TRUE]
            ELSE \E ranking \in Rankings(init.rag.vector_store[1],
                                         IF top_k = NoneValue THEN top_k_results
                                         ELSE top_k[1]) :
                   LET index == init.rag.vector_store[1]
                       searched == ~(top_k = NoneValue /\ "top_k_results" \notin rag.settings)
                                   /\ env.api_ok
                   IN  rag_ret' = [op |-> "retrieve_context", raised |-> FALSE,
                                   initialised |-> TRUE,
                                   value |-> retrieve_context_try(init.rag, top_k,
                                                                  ranking, env),
                                   found |-> IF searched
                                             THEN [i \in 1..Len(ranking) |-> index[ranking[i]]]
                                             ELSE <<>>,
                                   failed |-> ~searched]
  /\ UNCHANGED disk
  /\ RagUnchanged

\* clear_documents (lines 203-223)
ClearDocuments(env) ==
  /\ rag.constructed /\ Outside(env, TRUE)
  /\ LET init == ensure_initialized(rag, disk, env)
     IN  IF init.raised \/ ~env.api_ok
         THEN /\ rag' = init.rag
              /\ rag_ret' = [op |-> "clear_documents", raised |-> TRUE]
              /\ UNCHANGED disk
         ELSE LET r == [init.rag EXCEPT !.vector_store = Some(<<dummy_doc>>)]
              IN  /\ rag' = r
                  /\ disk' = persist_vector_store(r, disk, env)
                  /\ rag_ret' = [op |-> "clear_documents", raised |-> FALSE]
  /\ RagUnchanged

\* get_document_count (lines 193-201)
GetDocumentCount(env) ==
  /\ rag.constructed /\ Outside(env, FALSE)
  /\ LET init == ensure_initialized(rag, disk, env)
     IN  /\ rag' = init.rag
         /\ rag_ret' = IF init.raised
                       THEN [op |-> "get_document_count", raised |-> TRUE]
                       ELSE [op |-> "get_document_count", raised |-> FALSE,
                             value |-> Len(init.rag.vector_store[1]) - 1]
  /\ UNCHANGED disk
  /\ RagUnchanged

NextRag ==
  \/ Construct
  \/ \E content \in Contents, metadata \in Metadatas, env \in Envs :
        AddDocument(content, metadata, env)
  \/ \E query \in Queries, top_k \in TopKs, env \in Envs :
        RetrieveContext(query, top_k, env)
  \/ \E env \in Envs : ClearDocuments(env)
  \/ \E env \in Envs : GetDocumentCount(env)

SpecRag == InitRag /\ [][NextRag]_vars

\* ===================================================================
\* Claims
\* ===================================================================

\* the last n exchanges of a log
LastPairs(pairs, n) ==
  IF Len(pairs) > n THEN SubSeq(pairs, Len(pairs) - n + 1, Len(pairs)) ELSE pairs

\* SpecSeq reaches the state Spec may start in (counters aside)
PreloadReached ==
  /\ conversation_history = ("a" :> Flatten(Exchanges("a", PreTurns)))
  /\ log["a"] = Exchanges("a", PreTurns)
  /\ started = [c \in AllIds |-> IF c = "a" THEN PreTurns ELSE 0]
  /\ AllIdle

\* C1: in every reachable state of the conversation store, whatever calls of
\* generate_response (with or without an id) and clear_conversation were made,
\* every stored history has at most 20 entries.
C1_HistoryAtMost20 ==
  \A c \in DOMAIN conversation_history : Len(conversation_history[c]) <= 20

\* a history that was cut: more than 10 exchanges completed, 20 entries kept
C1_Witness ==
  \E c \in DOMAIN conversation_history :
     Len(log[c]) > 10 /\ Len(conversation_history[c]) = 20

\* C2: after N successful sequential turns on a conversation (since it was
\* created or last cleared) its history is exactly the user/assistant pairs of
\* the last min(N, 10) turns in turn order; turn 11 evicts turn 1's pair only.
C2_LastTenTurns ==
  \A c \in AllIds :
     /\ HistoryOf(conversation_history, c) = Flatten(LastPairs(log[c], 10))
     /\ Len(log[c]) = 11 =>
          /\ conversation_history[c][1].content = log[c][2][1]
          /\ conversation_history[c][20].content = log[c][11][2]

\* eleven turns completed on "a": the first pair is gone, the other ten stay
C2_Witness ==
  /\ log["a"] = Exchanges("a", 11)
  /\ "a" \in DOMAIN conversation_history
  /\ conversation_history["a"][1] = [role |-> "user", content |-> UserText("a", 2)]

\* C3: in every reachable state, interleaved requests on one id included, each
\* stored history has even length and alternates user, assistant, from a user
\* message on.
C3_PairsAligned ==
  \A c \in DOMAIN conversation_history :
     LET h == conversation_history[c]
     IN  /\ Len(h) % 2 = 0
         /\ \A i \in 1..Len(h) :
               h[i].role = IF i % 2 = 1 THEN "user" ELSE "assistant"

\* a history cut while a request on the same id, made before the last update,
\* is still in flight
C3_Witness ==
  \E p \in Procs :
     /\ pc[p] = "awaiting"
     /\ call[p].conversation_id \in DOMAIN conversation_history
     /\ call[p].before # conversation_history[call[p].conversation_id]
     /\ Len(log[call[p].conversation_id]) > 10
     /\ Len(conversation_history[call[p].conversation_id]) = 20

\* C4: the messages sent to the LLM are one system message, then the history
\* stored for the id when the call was made, oldest first, then the current
\* user message; for an unknown or newly generated id just system and user.
C4_MessagesSent ==
  \A p \in Procs :
     pc[p] = "awaiting" =>
       LET m == call[p].messages
           n == Len(m)
       IN  /\ n = Len(call[p].before) + 2
           /\ m[1] = [role |-> "system",
                      content |-> build_system_prompt(call[p].context)]
           /\ \A i \in 2..n : m[i].role # "system"
           /\ SubSeq(m, 2, n - 1) = call[p].before
           /\ m[n] = [role |-> "user", content |-> call[p].user_message]
           /\ (call[p].fresh \/ call[p].supplied = None) => n = 2

\* a request with stored history in flight together with one on a new id
C4_Witness ==
  \E p, q \in Procs :
     /\ pc[p] = "awaiting" /\ Len(call[p].before) >= 4
     /\ pc[q] = "awaiting" /\ call[q].supplied = None

\* C5: the exchange is appended only after the completion call succeeds: while
\* the call is awaited the history is as before the call, and when it fails the
\* error reaches the caller after one attempt with the history as before.
C5_NoAppendBeforeSuccess ==
  /\ \A p \in Procs :
        pc[p] = "awaiting" =>
          /\ HistoryOf(conversation_history, call[p].conversation_id) = call[p].before
          /\ call[p].attempts = 1
  /\ ret.op = "raised" =>
          /\ HistoryOf(conversation_history, ret.conversation_id) = ret.before
          /\ ret.attempts = 1
          /\ AllIdle

\* a call on a conversation that has history failed
C5_Witness == ret.op = "raised" /\ Len(ret.before) >= 2

\* C6: a call without an id generates an id that is not in the store, gives it
\* an empty history and returns it; a call with an id returns that id; either
\* way the exchange is stored under the returned id.
C6_ConversationId ==
  /\ ret.op = "call" /\ call[ret.slot].supplied = None =>
        /\ call[ret.slot].fresh
        /\ call[ret.slot].conversation_id \in DOMAIN conversation_history
        /\ conversation_history[call[ret.slot].conversation_id] = <<>>
  /\ ret.op = "returned" =>
        LET id == ret.value.conversation_id
            h == HistoryOf(conversation_history, id)
        IN  /\ ret.supplied # None => id = ret.supplied
            /\ ret.supplied = None => id \in IssuedIds /\ id = ret.user_message[1]
            /\ Len(h) >= 2
            /\ SubSeq(h, Len(h) - 1, Len(h)) =
                  Exchange(ret.user_message, ret.value.response)

\* a call without an id returned while a call with an id is in flight
C6_Witness ==
  /\ ret.op = "returned" /\ ret.supplied = None
  /\ \E p \in Procs : pc[p] = "awaiting" /\ call[p].supplied # None

\* ---- the rules of the intent classifier as the specification words them
RuleA(q) == Contains(q, S_server)
            /\ (Contains(q, S_list) \/ Contains(q, S_show) \/ Contains(q, S_all)
                \/ Contains(q, S_what))
RuleB(q) == Contains(q, S_application)
            /\ (Contains(q, S_list) \/ Contains(q, S_show) \/ Contains(q, S_all))
OsKeywordsInOrder == <<S_ubuntu, S_windows, S_centos, S_linux, S_rhel>>
RuleC(q) == \E i \in 1..5 : Contains(q, OsKeywordsInOrder[i])
HasLocDigits(q) == \E i \in 1..Len(q) : OccursAt(S_loc, q, i) /\ i + 3 <= Len(q)
                                         /\ q[i + 3] \in Digits
HasServerDigits(q) == \E i \in 1..Len(q) : OccursAt(S_server, q, i) /\ i + 6 <= Len(q)
                                            /\ q[i + 6] \in Digits
RuleD(q) == HasLocDigits(q)
RuleE(q) == HasServerDigits(q)
Intents == {"list_servers", "list_applications", "query_by_os", "query_by_location",
            "server_details", "general_info"}
FirstOsKeyword(q) ==
  OsKeywordsInOrder[CHOOSE i \in 1..5 :
      Contains(q, OsKeywordsInOrder[i])
      /\ \A j \in 1..(i - 1) : ~Contains(q, OsKeywordsInOrder[j])]
Returned == nlq_result.done /\ ~nlq_result.raised

\* C7: natural_language_query is total and deterministic: every text yields
\* one of the six intents, the same text always the same one (whatever the
\* graph holds); the documented examples hold; a text that matches none of the
\* rules (a)-(e) yields general_info, also when it holds "loc" or "location"
\* without loc<digits> and without server<digits>.
C7_ClassifierTotal ==
  /\ Cardinality(seen_intents) <= 1
  /\ Returned =>
       LET r == nlq_result.value
           q == Lower(query_text)
       IN  /\ r.intent \in Intents
           /\ seen_intents = {r.intent}
           /\ query_text = Ex_list_all_servers => r.intent = "list_servers"
           /\ query_text = Ex_show_all_applications => r.intent = "list_applications"
           /\ query_text = Ex_apps_on_ubuntu =>
                 r.query = <<"query_applications_by_os", <<"U", "b", "u", "n", "t", "u">>>>
                 /\ r.intent = "query_by_os"
           /\ query_text = Ex_servers_in_loc3 =>
                 r.query = <<"query_servers_by_location", <<"l", "o", "c", "3">>>>
                 /\ r.intent = "query_by_location"
           /\ query_text = Ex_details_for_server42 =>
                 r.query = <<"query_server_details", <<"s", "e", "r", "v", "e", "r", "4", "2">>>>
                 /\ r.intent = "server_details"
           /\ ~(RuleA(q) \/ RuleB(q) \/ RuleC(q) \/ RuleD(q) \/ RuleE(q)) =>
                 r.intent = "general_info"

\* a text with "loc" but no digits after it, and no other rule, was classified
C7_Witness ==
  /\ Returned
  /\ Contains(Lower(query_text), S_loc)
  /\ ~(RuleA(Lower(query_text)) \/ RuleB(Lower(query_text)) \/ RuleC(Lower(query_text))
       \/ RuleD(Lower(query_text)) \/ RuleE(Lower(query_text)))
  /\ nlq_result.value.intent = "general_info"

\* C8: a text with an OS keyword among ubuntu, windows, centos, linux, rhel
\* that matches neither rule (a) nor (b) is classified query_by_os, and the
\* filter of the graph query is the capitalised first keyword, in that order,
\* that occurs in the lower-cased text.
C8_OsRule ==
  Returned =>
    LET r == nlq_result.value
        q == Lower(query_text)
    IN  (RuleC(q) /\ ~RuleA(q) /\ ~RuleB(q)) =>
          /\ r.intent = "query_by_os"
          /\ r.query = <<"query_applications_by_os", Capitalize(FirstOsKeyword(q))>>

\* the intent of the earliest of the rules (a)-(f) a text satisfies
FirstRuleIntent(q) ==
  IF RuleA(q) THEN "list_servers"
  ELSE IF RuleB(q) THEN "list_applications"
  ELSE IF RuleC(q) THEN "query_by_os"
  ELSE IF RuleD(q) THEN "query_by_location"
  ELSE IF RuleE(q) THEN "server_details"
  ELSE "general_info"
RulesMatched(q) ==
  {n \in {"a", "b", "c", "d", "e"} :
     \/ (n = "a" /\ RuleA(q)) \/ (n = "b" /\ RuleB(q)) \/ (n = "c" /\ RuleC(q))
     \/ (n = "d" /\ RuleD(q)) \/ (n = "e" /\ RuleE(q))}

\* C9: the classifier is priority-ordered, first match wins: a text that
\* satisfies several of the rules gets the intent of the earliest of them in
\* the order (a) list-servers, (b) list-applications, (c) applications-by-OS,
\* (d) servers-by-location, (e) server-detail.
C9_FirstMatchWins ==
  Returned =>
    LET q == Lower(query_text)
    IN  Cardinality(RulesMatched(q)) >= 2 =>
          nlq_result.value.intent = FirstRuleIntent(q)

\* the same with rule (c) as line 147 tests it, without rhel: this holds
C9_FirstMatchWinsWithoutRhel ==
  Returned =>
    LET q == Lower(query_text)
        c == \E i \in 1..4 : Contains(q, OsKeywordsInOrder[i])
    IN  nlq_result.value.intent =
          IF RuleA(q) THEN "list_servers"
          ELSE IF RuleB(q) THEN "list_applications"
          ELSE IF c THEN "query_by_os"
          ELSE IF RuleD(q) THEN "query_by_location"
          ELSE IF RuleE(q) THEN "server_details"
          ELSE "general_info"

Min(a, b) == IF a < b THEN a ELSE b

\* what C10 says of one chat request, given its locals
ChatComposed(c, context) ==
  LET results == c.graph_results.results
  IN  IF c.request.use_rag
      THEN /\ c.calls = <<"natural_language_query", "generate_response">>
           /\ c.graph_results.intent \in Intents
           /\ results = <<>> => context = <<>> /\ c.sources = <<>>
           /\ results # <<>> =>
                /\ c.sources # <<>>
                /\ Len(context) = 2 + Min(5, Len(results))
                /\ \A i \in 1..Min(5, Len(results)) : context[2 + i] = <<i, results[i]>>
      ELSE /\ c.calls = <<"generate_response">>
           /\ c.graph_results = NoGraphResults
           /\ context = <<>>
           /\ c.sources = <<>>

\* C10: with use_rag false the graph store is not queried, the LLM client gets
\* an empty context and the response has no sources; with use_rag true
\* natural_language_query is called once, before the LLM client, the context
\* holds the first 5 results at most, in order, and the response has sources
\* exactly when the graph result list is not empty (else the context is empty).
C10_ChatComposition ==
  /\ \A p \in Procs : pc[p] = "awaiting" => ChatComposed(chat[p], call[p].context)
  /\ http.status = 200 =>
       /\ http.calls = IF http.request.use_rag
                       THEN <<"natural_language_query", "generate_response">>
                       ELSE <<"generate_response">>
       /\ (http.body.sources # NoneValue) <=>
             (http.request.use_rag /\ http.graph_results.results # <<>>)
       /\ http.body.sources # NoneValue =>
             http.body.sources[1][1].data = http.graph_results

\* a request whose graph query found more than five results is awaiting the
\* LLM, after a request without use_rag was answered
C10_Witness ==
  /\ http.status = 200 /\ ~http.request.use_rag
  /\ \E p \in Procs :
        /\ pc[p] = "awaiting"
        /\ chat[p].request.use_rag
        /\ Len(chat[p].graph_results.results) > 5
        /\ Len(call[p].context) = 7

\* C11: the chat endpoint is the one catch boundary: a request whose graph
\* query raises is answered 500 with the message of that exception, and the LLM
\* client is not called for it (the conversation store and the request slots
\* stay as they were); a request whose completion call raises is answered 500
\* with the message of that exception; a 500 carries no body, and a 200 is sent
\* only by a request whose calls all returned.
C11_ChatErrors ==
  [][ /\ \A p \in Procs, request \in ChatRequests :
           (request.use_rag /\ ChatCall(p, request, FALSE)) =>
              /\ http'.status = 500 /\ http'.detail = DbError
              /\ "body" \notin DOMAIN http'
              /\ http'.request = request
              /\ \A i \in 1..Len(http'.calls) : http'.calls[i] # "generate_response"
              /\ UNCHANGED <<conversation_history, pc, call, chat, uuids>>
      /\ \A p \in Procs :
           ChatRaise(p) =>
              /\ http'.status = 500 /\ http'.detail = LlmError
              /\ "body" \notin DOMAIN http'
              /\ http'.request = chat[p].request
      /\ (http'.status = 200 /\ http' # http) =>
           \E p \in Procs :
              /\ pc[p] = "awaiting" /\ pc'[p] = "idle"
              /\ ret'.op = "returned"
              /\ http'.request = chat[p].request
              /\ (http'.request.use_rag => http'.graph_results # NoGraphResults)
    ]_vars

\* a request failed on its graph query after another had failed on its
\* completion call
C11_Witness ==
  /\ http.status = 500 /\ http.detail = DbError
  /\ http.calls = <<"natural_language_query">>
  /\ ret.op = "raised"

\* C12: GET /graph/server/{server_id} answers 404 exactly when the graph
\* query ran and the graph has no server with that id, 200 with the server's
\* record exactly when it ran and the server exists, and 500 exactly when the
\* graph query raised.
C12_ServerDetailsStatus ==
  (http.status # 0 /\ http.request.endpoint = "get_server_details") =>
    LET id == http.request.server_id
        exists == \E i \in 1..Len(http.graph.servers) : http.graph.servers[i].id = id
    IN  /\ http.status \in {200, 404, 500}
        /\ (http.status = 404) <=> (~http.raised /\ ~exists)
        /\ (http.status = 200) <=> (~http.raised /\ exists)
        /\ (http.status = 500) <=> http.raised
        /\ http.status = 404 => http.detail = NotFoundDetail(id)
        /\ http.status = 500 => http.detail = DbError
        /\ http.status = 200 =>
             /\ http.body.server # EmptyDict
             /\ http.body.server[1] = <<"server_id", id>>

\* the id of an application was asked for in a graph that has servers: 404
C12_Witness ==
  /\ http.status = 404
  /\ http.request.endpoint = "get_server_details"
  /\ http.request.server_id = <<"a", "1">>
  /\ http.graph = SampleGraph

\* the lists of nodes and edges of the database
Collections == {"servers", "applications", "oses", "locations",
                "runs_on", "hosts", "located_in"}
RangeOf(list) == {list[i] : i \in 1..Len(list)}
NoDuplicate(list) == \A i, j \in 1..Len(list) : list[i] = list[j] => i = j
UniqueIds(nodes) == \A i, j \in 1..Len(nodes) : nodes[i].id = nodes[j].id => i = j

\* C13: when load_all has run to its end without clearing, on a database that
\* a finished load_all of the same CSV rows had left, the database has the same
\* Server, Application, OS and Location nodes and the same RUNS_ON, HOSTS and
\* LOCATED_IN edges, in the same numbers, as before that run, and no node or
\* edge is there twice.
C13_LoaderIdempotent ==
  (loader.pc = "done" /\ ~loader.clear_first /\ loader.from_loaded) =>
     \A c \in Collections :
        /\ RangeOf(db[c]) = RangeOf(loader.before[c])
        /\ Len(db[c]) = Len(loader.before[c])
        /\ NoDuplicate(db[c])
        /\ c \in {"servers", "applications", "oses", "locations"} => UniqueIds(db[c])

\* a second run without clearing ended on a database with nodes of each label
\* and edges of two types
C13_Witness ==
  /\ loader.pc = "done" /\ ~loader.clear_first /\ loader.from_loaded
  /\ db.servers # <<>> /\ db.applications # <<>> /\ db.oses # <<>>
  /\ db.locations # <<>>
  /\ db.runs_on # <<>> /\ db.located_in # <<>>

\* a relationship row one of whose ends has no node of the label it needs
Dangling(rel, starts, ends) == rel.start \notin Ids(starts) \/ rel.end \notin Ids(ends)

\* what holds of the loader and the database whatever the rows are: node steps
\* come before edge steps, edges join nodes of the right labels, rows with a
\* missing end leave no edge, ids are unique per label, and Server, Application
\* and OS nodes come from their own files
LoaderKeepsGraphSound ==
  /\ \A i \in 1..Len(loader.trace) :
        loader.trace[i] \in EdgeSteps =>
           NodeSteps \subseteq {loader.trace[j] : j \in 1..(i - 1)}
  /\ \A i \in 1..Len(db.runs_on) :
        db.runs_on[i][1] \in Ids(db.servers) /\ db.runs_on[i][2] \in Ids(db.oses)
  /\ \A i \in 1..Len(db.hosts) :
        db.hosts[i][1] \in Ids(db.servers) /\ db.hosts[i][2] \in Ids(db.applications)
  /\ \A i \in 1..Len(db.located_in) :
        db.located_in[i][1] \in Ids(db.servers)
        /\ db.located_in[i][2] \in Ids(db.locations)
  /\ \A c \in {"servers", "applications", "oses", "locations"} : UniqueIds(db[c])
  /\ loader.pc = "done" =>
        /\ \A i \in 1..Len(csv.runs_on) :
              Dangling(csv.runs_on[i], db.servers, db.oses) =>
                 <<csv.runs_on[i].start, csv.runs_on[i].end>> \notin RangeOf(db.runs_on)
        /\ \A i \in 1..Len(csv.hosts) :
              Dangling(csv.hosts[i], db.servers, db.applications) =>
                 <<csv.hosts[i].start, csv.hosts[i].end>> \notin RangeOf(db.hosts)
        /\ \A i \in 1..Len(csv.located_in) :
              Dangling(csv.located_in[i], db.servers, db.locations) =>
                 <<csv.located_in[i].start, csv.located_in[i].end>>
                    \notin RangeOf(db.located_in)
        /\ Ids(db.servers) = Ids(csv.servers)
        /\ Ids(db.applications) = Ids(csv.applications)
        /\ Ids(db.oses) = Ids(csv.oses)

\* C17 as stated: the above, and a relationship row with a missing end creates
\* no node either: each Location node is the end of a LOCATED_IN row whose
\* server exists.
C17_NodesBeforeEdges ==
  /\ LoaderKeepsGraphSound
  /\ loader.pc = "done" =>
        \A i \in 1..Len(db.locations) :
           \E j \in 1..Len(csv.located_in) :
              /\ csv.located_in[j].end = db.locations[i].id
              /\ csv.located_in[j].start \in Ids(db.servers)

\* C17 amended: the above, except that load_locations creates a Location node
\* for the end id of every LOCATED_IN row, also of a row whose server is
\* missing: the Location nodes are exactly the end ids of located_in.csv.
C17_NodesBeforeEdgesAmended ==
  /\ LoaderKeepsGraphSound
  /\ loader.pc = "done" => Ids(db.locations) = location_ids(csv)

\* load_all ended with a RUNS_ON edge in place and a LOCATED_IN row whose
\* server is missing: its location is there, its edge is not
C17_Witness ==
  /\ loader.pc = "done"
  /\ db.runs_on # <<>>
  /\ \E j \in 1..Len(csv.located_in) :
        /\ csv.located_in[j].start \notin Ids(db.servers)
        /\ csv.located_in[j].end \in Ids(db.locations)
        /\ db.located_in = <<>>

\* the documents of the index whose metadata type is "system"
IsSystem(doc) == Get(doc.metadata, "type") = "system"
HasSentinel(index) == \E i \in 1..Len(index) : index[i] = dummy_doc

C15_RetrieveNeverThrows ==
  rag_ret.op = "retrieve_context" =>
     /\ ~rag_ret.raised
     /\ (rag_ret.failed \/ \A i \in 1..Len(rag_ret.found) : IsSystem(rag_ret.found[i])) =>
           rag_ret.value = EmptyContext

\* the exchanges of a log that the stored history of c does not hold
LostPairs(c) ==
  {i \in 1..Len(log[c]) :
     ~\E j \in 1..Len(HistoryOf(conversation_history, c)) :
         /\ j + 1 <= Len(HistoryOf(conversation_history, c))
         /\ SubSeq(HistoryOf(conversation_history, c), j, j + 1)
              = Exchange(log[c][i][1], log[c][i][2])}

\* the call that returned last was in flight together with another call on
\* its id, which completed first: the history grew between call and return
Overlapped ==
  /\ ret.op = "returned"
  /\ Len(ret.stored) > Len(ret.before)
  /\ Len(log[ret.value.conversation_id]) < 10

\* C16 as stated: two calls on one id that were in flight together race on the
\* append/truncate step and an update is lost: after both completed, with
\* fewer than 10 exchanges on the id, the stored history lacks the pair of one
\* of them.
C16_LostUpdate == Overlapped => LostPairs(ret.value.conversation_id) # {}

\* C16 amended: no update is lost: whatever the interleaving of the calls on
\* an id, while fewer than 10 exchanges completed on it since it was created
\* or last cleared, the stored history holds the pair of every call that
\* completed, in the order of completion.
C16_NoLostUpdate ==
  \A c \in AllIds :
     Len(log[c]) < 10 =>
        /\ LostPairs(c) = {}
        /\ HistoryOf(conversation_history, c) = Flatten(log[c])

\* two calls on one id were in flight together and both completed
C16_Witness ==
  /\ Overlapped
  /\ Len(log[ret.value.conversation_id]) >= 2
  /\ Len(ret.before) + 4 = Len(conversation_history[ret.value.conversation_id])

\* ---- C18: what a failed call leaves in the store ---------------------

\* the step that starts a generate_response call (lines 46-68)
CallStep == \E p \in Procs : pc[p] = "idle" /\ pc'[p] = "awaiting"

\* the step on which the completion call of a generate_response raises
RaiseStep == \E p \in Procs : pc[p] = "awaiting" /\ pc'[p] = "idle" /\ ret'.op = "raised"

\* a call keeps every conversation that was stored when it was made, and the
\* except clause changes nothing
FailedCallKeepsStored ==
  /\ CallStep => \A c \in DOMAIN conversation_history :
                    /\ c \in DOMAIN conversation_history'
                    /\ conversation_history'[c] = conversation_history[c]
  /\ RaiseStep => conversation_history' = conversation_history

\* C18 as stated: with requests made one after the other, a generate_response
\* call whose completion call raises leaves the whole store as it was when the
\* call was made: the same set of conversation ids, the same history for each,
\* and the same get_active_conversations, also when the call was made without
\* a conversation id.
C18_FailedCallLeavesStore ==
  [][ /\ FailedCallKeepsStored
      /\ RaiseStep =>
           /\ DOMAIN conversation_history' = ret'.ids_before
           /\ HistoryOf(conversation_history', ret'.conversation_id) = ret'.before
           /\ get_active_conversations(conversation_history')
                = Cardinality(ret'.ids_before) ]_vars

\* C18, amended: a failed generate_response call changes no history and
\* removes no conversation id. Made with a conversation id it leaves the whole
\* store as it was when the call was made; made without one it leaves behind
\* the id it generated, with an empty history, so get_active_conversations is
\* one more than before the call.
C18_FailedCallLeavesNewId ==
  [][ /\ FailedCallKeepsStored
      /\ RaiseStep =>
           LET id == ret'.conversation_id
               new == IF ret'.supplied = None THEN {id} ELSE {}
           IN  /\ DOMAIN conversation_history' = ret'.ids_before \cup new
               /\ HistoryOf(conversation_history', id) = ret'.before
               /\ ret'.supplied = None =>
                    /\ id \notin ret'.ids_before
                    /\ conversation_history'[id] = <<>>
               /\ get_active_conversations(conversation_history')
                    = Cardinality(ret'.ids_before) + Cardinality(new) ]_vars

\* a call without an id has failed while another conversation holds an
\* exchange: the generated id is stored with an empty history
C18_Witness ==
  /\ ret.op = "raised" /\ ret.supplied = None
  /\ ret.conversation_id \in DOMAIN conversation_history
  /\ conversation_history[ret.conversation_id] = <<>>
  /\ \E c \in ret.ids_before : Len(conversation_history[c]) >= 2
  /\ get_active_conversations(conversation_history) = Cardinality(ret.ids_before) + 1

\* ---- C19: conversations are isolated ---------------------------------

\* every conversation other than A is stored after the step exactly as before
OthersKept(A) ==
  \A B \in (DOMAIN conversation_history \cup DOMAIN conversation_history') \ {A} :
     /\ B \in DOMAIN conversation_history /\ B \in DOMAIN conversation_history'
     /\ conversation_history'[B] = conversation_history[B]

\* the step on which the completion call of a generate_response returns
ReturnStep == \E p \in Procs : pc[p] = "awaiting" /\ pc'[p] = "idle" /\ ret'.op = "returned"

\* the step of a clear_conversation call
ClearStep == ret'.op = "cleared" /\ UNCHANGED pc

\* the messages the call of slot p sends are built from A's history alone:
\* the prompt, A's stored messages, the user message
ReadsOnly(p, A) ==
  call'[p].messages =
     <<[role |-> "system", content |-> build_system_prompt(call'[p].context)]>>
       \o HistoryOf(conversation_history, A)
       \o <<[role |-> "user", content |-> call'[p].user_message]>>

\* C19: under any interleaving of calls, each step of a generate_response call
\* on id A (the call itself, its return, its failure) leaves every other
\* conversation as it was, and the messages it sends hold A's history and no
\* other; clear_conversation(A) returns True exactly when A was stored,
\* removes A and leaves every other conversation as it was.
C19_Isolated ==
  [][ /\ CallStep =>
           \E p \in Procs :
              /\ pc[p] = "idle" /\ pc'[p] = "awaiting"
              /\ OthersKept(call'[p].conversation_id)
              /\ ReadsOnly(p, call'[p].conversation_id)
      /\ ReturnStep => OthersKept(ret'.value.conversation_id)
      /\ RaiseStep => OthersKept(ret'.conversation_id)
      /\ ClearStep =>
           /\ ret'.value = (ret'.conversation_id \in DOMAIN conversation_history)
           /\ ret'.conversation_id \notin DOMAIN conversation_history'
           /\ OthersKept(ret'.conversation_id) ]_vars

\* a conversation was cleared while another one, with a stored exchange, has
\* a call in flight
C19_Witness ==
  /\ ret.op = "cleared" /\ ret.value
  /\ \E p \in Procs :
        /\ pc[p] = "awaiting"
        /\ call[p].conversation_id # ret.conversation_id
        /\ call[p].conversation_id \in DOMAIN conversation_history
        /\ Len(conversation_history[call[p].conversation_id]) >= 2

====
